---- MODULE Spec2Model ----
(***************************************************************************)
(* Model of plugins/modules/hcloud_server_info.py: one invocation of the   *)
(* module (main), the lookup selection of get_servers, and the field       *)
(* mapping of _prepare_result.  Python values are tagged with their type   *)
(* so that to_native is a conversion and not the identity.                 *)
(***************************************************************************)
EXTENDS Integers, Sequences, FiniteSets, TLC

\* Bounds of the model.
MaxServers == 2
MaxLen == 3

(***************************************************************************)
(* Python values: None, int and str.                                       *)
(***************************************************************************)
None == [t |-> "none", n |-> 0, s |-> ""]
PyInt(n) == [t |-> "int", n |-> n, s |-> ""]
PyStr(s) == [t |-> "str", n |-> 0, s |-> s]

Digits == <<"0", "1", "2", "3", "4", "5", "6", "7", "8", "9">>

\* str(n) of a non-negative int.
RECURSIVE repr(_)
repr(n) == IF n < 10 THEN Digits[n + 1] ELSE repr(n \div 10) \o Digits[(n % 10) + 1]

\* ansible to_native: text stays text, any other object becomes its str().
to_native(v) ==
    CASE v.t = "str" -> v
      [] v.t = "int" -> PyStr(repr(v.n))
      [] OTHER -> PyStr("None")

(***************************************************************************)
(* The server objects the client hands out.  absent is the set of nested   *)
(* objects (and the nullable backup_window) that are None on the object.   *)
(***************************************************************************)
NestedFields ==
    {"image", "placement_group", "ipv4", "ipv6", "backup_window",
     "server_type", "datacenter", "location"}

Nullable == {"image", "placement_group", "ipv4", "ipv6", "backup_window"}

private_net(i) ==
    [k \in 1..(i % 3) |->
        [network |-> [name |-> PyStr("net" \o repr(k))],
         ip |-> PyStr("10.0.0." \o repr(k + 1))]]

ServerLabels(i) == IF i % 2 = 1 THEN {<<"env", "prod">>} ELSE {<<"env", "dev">>}

ServerId(i) == PyInt(40 + i)
ServerName(i) == PyStr("srv" \o repr(i))

ServerObj(i, absent) ==
    [id |-> ServerId(i),
     name |-> ServerName(i),
     status |-> PyStr("running"),
     image |-> IF "image" \in absent THEN None ELSE [name |-> PyStr("ubuntu-20.04")],
     placement_group |->
        IF "placement_group" \in absent THEN None ELSE [name |-> PyStr("spread")],
     public_net |->
        [ipv4 |-> IF "ipv4" \in absent THEN None ELSE [ip |-> PyStr("116.203.104.109")],
         ipv6 |-> IF "ipv6" \in absent THEN None ELSE [ip |-> PyStr("2a01:4f8:1c1c:c140::/64")]],
     backup_window |-> IF "backup_window" \in absent THEN None ELSE PyStr("22-02"),
     private_net |-> private_net(i),
     server_type |-> IF "server_type" \in absent THEN None ELSE [name |-> PyStr("cx11")],
     datacenter |->
        IF "datacenter" \in absent THEN None
        ELSE [name |-> PyStr("fsn1-dc14"),
              location |-> IF "location" \in absent THEN None ELSE [name |-> PyStr("fsn1")]],
     rescue_enabled |-> (i % 2 = 0),
     labels |-> ServerLabels(i),
     protection |-> [delete |-> (i % 2 = 1), rebuild |-> FALSE]]

(***************************************************************************)
(* _prepare_result (lines 161-190).                                        *)
(***************************************************************************)
Keys ==
    {"id", "name", "status", "server_type", "ipv4_address", "ipv6",
     "private_networks", "private_networks_info", "image", "datacenter",
     "location", "placement_group", "rescue_enabled", "backup_window",
     "labels", "delete_protection", "rebuild_protection"}

\* A mutant of raises_AttributeError: the image is read without its guard.
raises_unguarded_image(server) ==
    \/ server.image = None
    \/ server.server_type = None
    \/ server.datacenter = None
    \/ server.datacenter.location = None

\* The attribute reads of the dict literal that are not guarded: reading
\* .name of a None object raises AttributeError.
raises_AttributeError(server) ==
    \/ server.server_type = None
    \/ server.datacenter = None
    \/ server.datacenter.location = None

\* The list comprehension of line 176.
private_networks(server) ==
    [k \in 1..Len(server.private_net) |->
        to_native(server.private_net[k].network.name)]

\* The list comprehension of line 177.
private_networks_info(server) ==
    [k \in 1..Len(server.private_net) |->
        [name |-> to_native(server.private_net[k].network.name),
         ip |-> server.private_net[k].ip]]

\* The dict appended for one non-None server.
record(server) ==
    LET image == IF server.image = None THEN None ELSE to_native(server.image.name)
        placement_group ==
            IF server.placement_group = None THEN None
            ELSE to_native(server.placement_group.name)
        ipv4_address ==
            IF server.public_net.ipv4 = None THEN None
            ELSE to_native(server.public_net.ipv4.ip)
        ipv6 ==
            IF server.public_net.ipv6 = None THEN None
            ELSE to_native(server.public_net.ipv6.ip)
        backup_window ==
            IF server.backup_window = None THEN None
            ELSE to_native(server.backup_window)
    IN  [id |-> to_native(server.id),
         name |-> to_native(server.name),
         ipv4_address |-> ipv4_address,
         ipv6 |-> ipv6,
         private_networks |-> private_networks(server),
         private_networks_info |-> private_networks_info(server),
         image |-> image,
         server_type |-> to_native(server.server_type.name),
         datacenter |-> to_native(server.datacenter.name),
         location |-> to_native(server.datacenter.location.name),
         placement_group |-> placement_group,
         rescue_enabled |-> server.rescue_enabled,
         backup_window |-> backup_window,
         labels |-> server.labels,
         status |-> to_native(server.status),
         delete_protection |-> server.protection.delete,
         rebuild_protection |-> server.protection.rebuild]

\* The loop of _prepare_result over the remaining entries, tmp being the
\* list built so far.
RECURSIVE prepare_loop(_, _)
prepare_loop(lst, tmp) ==
    IF lst = <<>> THEN tmp
    ELSE LET server == Head(lst)
         IN  prepare_loop(Tail(lst),
                          IF server # None THEN Append(tmp, record(server)) ELSE tmp)

\* A mutant of _prepare_result: the list is built by prepending.
RECURSIVE prepare_prepend(_)
prepare_prepend(lst) ==
    IF lst = <<>> THEN <<>>
    ELSE LET server == Head(lst)
         IN  IF server # None
             THEN Append(prepare_prepend(Tail(lst)), record(server))
             ELSE prepare_prepend(Tail(lst))

\* A mutant of _prepare_result: the last entry of the lookup result is lost.
prepare_drops_last(lst) ==
    IF lst = <<>> THEN <<>> ELSE prepare_loop(SubSeq(lst, 1, Len(lst) - 1), <<>>)

_prepare_result(lst) == prepare_loop(lst, <<>>)

\* A mutant of prepare_raises: the "server is not None" guard is missing, so
\* reading an attribute of a None entry raises.
prepare_raises_on_None(lst) ==
    \E i \in 1..Len(lst) : lst[i] = None \/ raises_AttributeError(lst[i])

\* _prepare_result raises when it reaches a server it cannot map.
prepare_raises(lst) ==
    \E i \in 1..Len(lst) : lst[i] # None /\ raises_AttributeError(lst[i])

(***************************************************************************)
(* The hcloud client: the servers of the project and the three read-only   *)
(* lookups the module calls.                                               *)
(***************************************************************************)
\* What a label selector asks for: the key/value pairs a server must carry.
selector_pairs(sel) ==
    CASE sel.s = "env=prod" -> {<<"env", "prod">>}
      [] sel.s = "env=dev" -> {<<"env", "dev">>}
      [] OTHER -> {<<"env", "none">>}

RECURSIVE filter(_, _)
filter(db, pairs) ==
    IF db = <<>> THEN <<>>
    ELSE IF pairs \subseteq Head(db).labels
         THEN <<Head(db)>> \o filter(Tail(db), pairs)
         ELSE filter(Tail(db), pairs)

\* client.servers.get_by_id(id): the server with that id, None when the
\* client has none to return (a client that raises instead is covered by
\* Exceptions).
get_by_id(db, id) ==
    IF \E i \in 1..Len(db) : db[i].id = id
    THEN db[CHOOSE i \in 1..Len(db) : db[i].id = id]
    ELSE None

\* client.servers.get_by_name(name): the server with that name, or None.
get_by_name(db, name) ==
    IF \E i \in 1..Len(db) : db[i].name = name
    THEN db[CHOOSE i \in 1..Len(db) : db[i].name = name]
    ELSE None

\* client.servers.get_all(label_selector=...) and client.servers.get_all().
get_all(db, kwargs) ==
    IF \E kw \in kwargs : kw[1] = "label_selector"
    THEN filter(db, selector_pairs((CHOOSE kw \in kwargs : kw[1] = "label_selector")[2]))
    ELSE db

\* What the API call can raise: the client's APIException, which carries a
\* message attribute, and any other exception (here a ConnectionError of the
\* HTTP layer), which on Python 3 has no message attribute.
NoException == [cls |-> "", has_message |-> FALSE, message |-> ""]

Exceptions ==
    {[cls |-> "APIException", has_message |-> TRUE, message |-> "server not found"],
     [cls |-> "ConnectionError", has_message |-> FALSE, message |-> "connection refused"]}

(***************************************************************************)
(* get_servers (lines 192-209).                                            *)
(***************************************************************************)
\* A mutant of selected: name is tested before id.
selected_name_first(p) ==
    IF p.name # None THEN "name"
    ELSE IF p.id # None THEN "id"
    ELSE IF p.label_selector # None THEN "label_selector"
    ELSE "none"

\* The if/elif chain over the parameters.
selected(p) ==
    IF p.id # None THEN "id"
    ELSE IF p.name # None THEN "name"
    ELSE IF p.label_selector # None THEN "label_selector"
    ELSE "none"

\* A mutant of call: get_all is called without the label_selector keyword.
call_without_selector(p) ==
    CASE selected(p) = "id" -> [method |-> "get_by_id", args |-> <<p.id>>, kwargs |-> {}]
      [] selected(p) = "name" -> [method |-> "get_by_name", args |-> <<p.name>>, kwargs |-> {}]
      [] OTHER -> [method |-> "get_all", args |-> <<>>, kwargs |-> {}]

\* The client call of the selected branch.
call(p) ==
    CASE selected(p) = "id" -> [method |-> "get_by_id", args |-> <<p.id>>, kwargs |-> {}]
      [] selected(p) = "name" -> [method |-> "get_by_name", args |-> <<p.name>>, kwargs |-> {}]
      [] selected(p) = "label_selector" ->
            [method |-> "get_all", args |-> <<>>,
             kwargs |-> {<<"label_selector", p.label_selector>>}]
      [] OTHER -> [method |-> "get_all", args |-> <<>>, kwargs |-> {}]

\* The value the branch assigns to self.hcloud_server_info: the single
\* lookups are wrapped in a one-element list, get_all is taken as it is.
assigned(db, c) ==
    CASE c.method = "get_by_id" -> <<get_by_id(db, c.args[1])>>
      [] c.method = "get_by_name" -> <<get_by_name(db, c.args[1])>>
      [] OTHER -> get_all(db, c.kwargs)

(***************************************************************************)
(* main (lines 224-245).                                                   *)
(***************************************************************************)
\* A mutant of exit_kwargs: the legacy branch is never taken.
exit_kwargs_always_info(old, res) ==
    [hcloud_server_info |-> res.hcloud_server_info]

\* The keyword arguments of exit_json.
exit_kwargs(old, res) ==
    IF old
    THEN [ansible_facts |-> [hcloud_server_facts |-> res.hcloud_server_info]]
    ELSE [hcloud_server_info |-> res.hcloud_server_info]

DeprecationNotice ==
    "The 'hcloud_server_facts' module has been renamed to 'hcloud_server_info', and the renamed one no longer returns ansible_facts"

(***************************************************************************)
(* The state of one invocation.                                            *)
(***************************************************************************)
VARIABLES
    pc,                  \* position in main
    module_name,         \* module._name
    params,              \* module.params
    servers,             \* the servers the client can see
    is_old_facts,        \* local of main
    deprecations,        \* the calls of module.deprecate
    calls,               \* the calls made on client.servers
    raised,              \* the exception the API call raised, if any
    hcloud_server_info,  \* self.hcloud_server_info
    result,              \* self.result
    fail_json,           \* the calls of module.fail_json
    exit_json,           \* the calls of module.exit_json
    escaped              \* the exception that left main uncaught, if any

vars ==
    <<pc, module_name, params, servers, is_old_facts, deprecations, calls,
      raised, hcloud_server_info, result, fail_json, exit_json, escaped>>

ModuleNames == {"hcloud_server_info", "hcloud_server_facts"}
IdParams == {None, PyInt(41), PyInt(42), PyInt(99)}
NameParams == {None, PyStr("srv1"), PyStr("srv2"), PyStr("nope")}
SelectorParams == {None, PyStr("env=prod"), PyStr("env=dev")}

\* The shapes of server object the model draws from.
Profiles == {{}} \cup {{f} : f \in NestedFields} \cup {Nullable}
DBProfiles == {{}, Nullable, {"image"}, {"server_type"}}

\* The servers of a project: server i in one of the shapes of DBProfiles.
Database(prof) == [i \in DOMAIN prof |-> ServerObj(i, prof[i])]

\* A lookup result: entry i is None or server i in one of the shapes.
LookupResult(prof) ==
    [i \in DOMAIN prof |-> IF prof[i] = {"None"} THEN None ELSE ServerObj(i, prof[i])]

Init ==
    /\ pc = "main"
    /\ module_name \in ModuleNames
    /\ params \in [id : IdParams, name : NameParams, label_selector : SelectorParams]
    /\ \E n \in 0..MaxServers : \E prof \in [1..n -> DBProfiles] :
          servers = Database(prof)
    /\ is_old_facts = FALSE
    /\ deprecations = <<>>
    /\ calls = <<>>
    /\ raised = NoException
    /\ hcloud_server_info = None
    /\ result = [changed |-> FALSE, hcloud_server_info |-> None]
    /\ fail_json = <<>>
    /\ exit_json = <<>>
    /\ escaped = ""

\* Lines 225-230: the module is defined and the legacy name is deprecated.
main_define ==
    /\ pc = "main"
    /\ is_old_facts' = (module_name = "hcloud_server_facts")
    /\ deprecations' =
          IF module_name = "hcloud_server_facts"
          THEN Append(deprecations, DeprecationNotice)
          ELSE deprecations
    /\ pc' = "defined"
    /\ UNCHANGED <<module_name, params, servers, calls, raised,
                   hcloud_server_info, result, fail_json, exit_json, escaped>>

\* get_servers when the API call returns.
get_servers_returns ==
    /\ pc = "defined"
    /\ calls' = Append(calls, call(params))
    /\ hcloud_server_info' = assigned(servers, call(params))
    /\ pc' = "fetched"
    /\ UNCHANGED <<module_name, params, servers, is_old_facts, deprecations,
                   raised, result, fail_json, exit_json, escaped>>

\* get_servers when the API call raises: the handler reads e.message and
\* calls fail_json, which ends the process; reading the attribute of an
\* exception that has none raises AttributeError out of the handler.
get_servers_raises ==
    /\ pc = "defined"
    /\ calls' = Append(calls, call(params))
    /\ \E e \in Exceptions :
          /\ raised' = e
          /\ IF e.has_message
             THEN /\ fail_json' = Append(fail_json, [msg |-> e.message])
                  /\ pc' = "failed"
                  /\ UNCHANGED escaped
             ELSE /\ escaped' = "AttributeError"
                  /\ pc' = "crashed"
                  /\ UNCHANGED fail_json
    /\ UNCHANGED <<module_name, params, servers, is_old_facts, deprecations,
                   hcloud_server_info, result, exit_json>>

\* Line 234: get_result of the Hcloud base class stores the prepared list
\* under the module's key; an exception of _prepare_result leaves main.
get_result ==
    /\ pc = "fetched"
    /\ IF prepare_raises(hcloud_server_info)
       THEN /\ escaped' = "AttributeError"
            /\ pc' = "crashed"
            /\ UNCHANGED result
       ELSE /\ result' = [result EXCEPT
                             !.hcloud_server_info = _prepare_result(hcloud_server_info)]
            /\ pc' = "prepared"
            /\ UNCHANGED escaped
    /\ UNCHANGED <<module_name, params, servers, is_old_facts, deprecations,
                   calls, raised, hcloud_server_info, fail_json, exit_json>>

\* Lines 236-245: the list is handed back under the key of the name in use.
main_exit ==
    /\ pc = "prepared"
    /\ exit_json' = Append(exit_json, exit_kwargs(is_old_facts, result))
    /\ pc' = "exited"
    /\ UNCHANGED <<module_name, params, servers, is_old_facts, deprecations,
                   calls, raised, hcloud_server_info, result, fail_json, escaped>>

Next ==
    \/ main_define
    \/ get_servers_returns
    \/ get_servers_raises
    \/ get_result
    \/ main_exit

Spec == Init /\ [][Next]_vars

(***************************************************************************)
(* _prepare_result as a function of the lookup result: the specification   *)
(* starts after get_servers with any list of server objects and None       *)
(* entries and applies get_result to it.                                   *)
(***************************************************************************)
InitPrepare ==
    /\ pc = "fetched"
    /\ module_name = "hcloud_server_info"
    /\ params = [id |-> None, name |-> None, label_selector |-> None]
    /\ servers = <<>>
    /\ is_old_facts = FALSE
    /\ deprecations = <<>>
    /\ calls = <<[method |-> "get_all", args |-> <<>>, kwargs |-> {}]>>
    /\ raised = NoException
    /\ \E n \in 0..MaxLen : \E prof \in [1..n -> Profiles \cup {{"None"}}] :
          hcloud_server_info = LookupResult(prof)
    /\ result = [changed |-> FALSE, hcloud_server_info |-> None]
    /\ fail_json = <<>>
    /\ exit_json = <<>>
    /\ escaped = ""

NextPrepare == get_result \/ main_exit

SpecPrepare == InitPrepare /\ [][NextPrepare]_vars

(***************************************************************************)
(* Properties.                                                             *)
(***************************************************************************)
\* The list handed to exit_json, under whichever key it was placed.
OutputList ==
    IF "ansible_facts" \in DOMAIN exit_json[1]
    THEN exit_json[1].ansible_facts.hcloud_server_facts
    ELSE exit_json[1].hcloud_server_info

\* The non-None entries of a lookup result, in order.
NonNull(lst) == SelectSeq(lst, LAMBDA x : x # None)

LookedUp == pc \notin {"main", "defined"}
Prepared == pc \in {"prepared", "exited"}

OnlyId == params.id # None /\ params.name = None /\ params.label_selector = None
OnlyName == params.id = None /\ params.name # None /\ params.label_selector = None
OnlySelector == params.id = None /\ params.name = None /\ params.label_selector # None
NoSelector == params.id = None /\ params.name = None /\ params.label_selector = None

\* C1: get_servers makes exactly one client lookup per invocation, chosen by
\* the precedence id > name > label_selector > none; parameters of lower
\* priority that are also set change neither the lookup nor its arguments.
C1_OneLookupByPrecedence ==
    /\ Len(calls) <= 1
    /\ ~LookedUp => calls = <<>>
    /\ LookedUp =>
          /\ Len(calls) = 1
          /\ calls[1] =
                IF params.id # None
                THEN [method |-> "get_by_id", args |-> <<params.id>>, kwargs |-> {}]
                ELSE IF params.name # None
                THEN [method |-> "get_by_name", args |-> <<params.name>>, kwargs |-> {}]
                ELSE IF params.label_selector # None
                THEN [method |-> "get_all", args |-> <<>>,
                      kwargs |-> {<<"label_selector", params.label_selector>>}]
                ELSE [method |-> "get_all", args |-> <<>>, kwargs |-> {}]

\* C1 witness: all three parameters are set and the lookup by id was made.
C1_Witness ==
    /\ pc = "exited"
    /\ params.id # None /\ params.name # None /\ params.label_selector # None
    /\ calls[1].method = "get_by_id"

\* C2: any exception raised by the API call is surfaced by fail_json with the
\* exception's message; nothing escapes get_servers, the lookup is made once
\* and exit_json is not called.
C2_ExceptionSurfaced ==
    raised # NoException =>
        /\ pc = "failed"
        /\ fail_json = <<[msg |-> raised.message]>>
        /\ escaped = ""
        /\ exit_json = <<>>
        /\ Len(calls) = 1

\* C3 as claimed: every non-None server of the lookup result yields a record
\* with all 17 keys, nothing is raised, and the field of every absent nested
\* object (server_type, datacenter and location included) is None.
C3_MappingTotal ==
    /\ pc # "crashed"
    /\ Prepared =>
          LET nn == NonNull(hcloud_server_info)
              out == result.hcloud_server_info
          IN  /\ Len(out) = Len(nn)
              /\ \A i \in 1..Len(nn) :
                    /\ DOMAIN out[i] = Keys
                    /\ nn[i].image = None => out[i].image = None
                    /\ nn[i].placement_group = None => out[i].placement_group = None
                    /\ nn[i].public_net.ipv4 = None => out[i].ipv4_address = None
                    /\ nn[i].public_net.ipv6 = None => out[i].ipv6 = None
                    /\ nn[i].server_type = None => out[i].server_type = None
                    /\ nn[i].datacenter = None =>
                          out[i].datacenter = None /\ out[i].location = None

\* C3 amended: when server_type, datacenter and datacenter.location are
\* present on every non-None server, each yields a record with all 17 keys in
\* which image, placement_group, ipv4_address and ipv6 are None when their
\* nested object is absent; when one of server_type, datacenter or
\* datacenter.location is absent on some non-None server, _prepare_result
\* raises and yields no record at all.
C3_MappingTotalWhereRequiredPresent ==
    LET nn == NonNull(hcloud_server_info)
        lacks(i) ==
            \/ nn[i].server_type = None
            \/ nn[i].datacenter = None
            \/ nn[i].datacenter.location = None
    IN  /\ pc = "crashed" =>
              /\ \E i \in 1..Len(nn) : lacks(i)
              /\ result = [changed |-> FALSE, hcloud_server_info |-> None]
              /\ exit_json = <<>>
        /\ Prepared =>
              LET out == result.hcloud_server_info
              IN  /\ Len(out) = Len(nn)
                  /\ \A i \in 1..Len(nn) :
                        /\ ~lacks(i)
                        /\ DOMAIN out[i] = Keys
                        /\ nn[i].image = None => out[i].image = None
                        /\ nn[i].placement_group = None => out[i].placement_group = None
                        /\ nn[i].public_net.ipv4 = None => out[i].ipv4_address = None
                        /\ nn[i].public_net.ipv6 = None => out[i].ipv6 = None
                        /\ out[i].server_type.t = "str"
                        /\ out[i].datacenter.t = "str"
                        /\ out[i].location.t = "str"

\* C3 witness: a server without image, placement group and public addresses
\* was mapped to a record with None in those fields.
C3_Witness ==
    /\ pc = "prepared"
    /\ \E i \in 1..Len(hcloud_server_info) :
          /\ hcloud_server_info[i] # None
          /\ hcloud_server_info[i].image = None
          /\ hcloud_server_info[i].placement_group = None
          /\ hcloud_server_info[i].public_net.ipv4 = None
    /\ \E k \in 1..Len(result.hcloud_server_info) :
          /\ result.hcloud_server_info[k].image = None
          /\ result.hcloud_server_info[k].ipv4_address = None

\* C4: under the legacy name a deprecation notice is emitted before the
\* lookup and the list of records, the same list the current name produces
\* from the same lookup result, is placed under ansible_facts /
\* hcloud_server_facts; under the current name there is no notice and the
\* list is the top-level key hcloud_server_info, with no ansible_facts.
C4_LegacyName ==
    /\ module_name = "hcloud_server_info" => deprecations = <<>>
    /\ (module_name = "hcloud_server_facts" /\ pc # "main") =>
          deprecations = <<DeprecationNotice>>
    /\ (module_name = "hcloud_server_facts" /\ calls # <<>>) => Len(deprecations) = 1
    /\ pc = "exited" =>
          /\ Len(exit_json) = 1
          /\ IF module_name = "hcloud_server_facts"
             THEN /\ DOMAIN exit_json[1] = {"ansible_facts"}
                  /\ DOMAIN exit_json[1].ansible_facts = {"hcloud_server_facts"}
                  /\ exit_json[1].ansible_facts.hcloud_server_facts =
                        _prepare_result(hcloud_server_info)
             ELSE /\ DOMAIN exit_json[1] = {"hcloud_server_info"}
                  /\ exit_json[1].hcloud_server_info = _prepare_result(hcloud_server_info)

\* C4 witness: the legacy name returned a non-empty list.
C4_Witness ==
    /\ pc = "exited"
    /\ module_name = "hcloud_server_facts"
    /\ Len(exit_json[1].ansible_facts.hcloud_server_facts) >= 1

\* C5: given only id, the output holds at most one record, the record's id
\* equals the requested id, and a None lookup result gives the empty list.
C5_OnlyId ==
    (pc = "exited" /\ OnlyId) =>
        /\ Len(OutputList) <= 1
        /\ \A k \in 1..Len(OutputList) : OutputList[k].id = params.id
        /\ hcloud_server_info = <<None>> => OutputList = <<>>

\* C6: given only name, the output holds at most one record, whose name is
\* the requested name; when get_by_name returns None the module does not
\* fail and the output is the empty list.
C6_OnlyName ==
    OnlyName =>
        /\ (LookedUp /\ raised = NoException /\ hcloud_server_info = <<None>>) =>
              /\ pc \in {"fetched", "prepared", "exited"}
              /\ fail_json = <<>>
              /\ escaped = ""
        /\ pc = "exited" =>
              /\ Len(OutputList) <= 1
              /\ \A k \in 1..Len(OutputList) : OutputList[k].name = params.name
              /\ hcloud_server_info = <<None>> => OutputList = <<>>

\* C6 witness: a lookup by name alone found nothing and the module exited
\* with the empty list.
C6_Witness ==
    /\ pc = "exited"
    /\ OnlyName
    /\ hcloud_server_info = <<None>>
    /\ OutputList = <<>>

\* C7: given label_selector alone, the output holds one record for every
\* server whose labels match the selector and none for any other server; when
\* id or name is set as well, no selector is passed to the client.
C7_OnlySelector ==
    /\ (pc = "exited" /\ OnlySelector) =>
          LET want == selector_pairs(params.label_selector)
              matching == {i \in 1..Len(servers) : want \subseteq servers[i].labels}
          IN  /\ Len(OutputList) = Cardinality(matching)
              /\ \A i \in matching :
                    \E k \in 1..Len(OutputList) : OutputList[k].name = servers[i].name
              /\ \A k \in 1..Len(OutputList) : want \subseteq OutputList[k].labels
    /\ (calls # <<>> /\ (params.id # None \/ params.name # None)) =>
          calls[1].kwargs = {}

\* C7 witness: the selector kept some servers and left others out.
C7_Witness ==
    /\ pc = "exited"
    /\ OnlySelector
    /\ Len(OutputList) >= 1
    /\ Len(OutputList) < Len(servers)

\* C8: given no selector, the output holds a record for every server the
\* client can see, in the client's order, none dropped and none added.
C8_NoSelector ==
    (pc = "exited" /\ NoSelector) =>
        /\ Len(OutputList) = Len(servers)
        /\ \A i \in 1..Len(servers) :
              /\ OutputList[i].name = servers[i].name
              /\ OutputList[i].labels = servers[i].labels

\* C8 witness: all servers of a project with more than one were listed.
C8_Witness ==
    /\ pc = "exited"
    /\ NoSelector
    /\ Len(servers) >= 2
    /\ Len(OutputList) = Len(servers)

\* C9: the id of every returned record is an int equal to the id of the
\* server object it was built from.
C9_IdIsInt ==
    pc = "exited" =>
        LET nn == NonNull(hcloud_server_info)
        IN  \A k \in 1..Len(OutputList) :
                /\ OutputList[k].id.t = "int"
                /\ OutputList[k].id = nn[k].id

\* C10: _prepare_result returns one record per non-None entry of the lookup
\* result, the i-th record built from the i-th non-None entry, None entries
\* skipped without error, and in every record private_networks and
\* private_networks_info have the same length and the same names.
C10_OrderAndNetworks ==
    /\ (pc = "fetched" /\ \A i \in 1..Len(hcloud_server_info) : hcloud_server_info[i] = None)
          => ~prepare_raises(hcloud_server_info)
    /\ Prepared =>
          LET nn == NonNull(hcloud_server_info)
              out == result.hcloud_server_info
          IN  /\ Len(out) = Len(nn)
              /\ \A i \in 1..Len(nn) :
                    /\ out[i].name = nn[i].name
                    /\ out[i].id.s = repr(nn[i].id.n)
                    /\ out[i].labels = nn[i].labels
                    /\ out[i].rescue_enabled = nn[i].rescue_enabled
                    /\ Len(out[i].private_networks) = Len(nn[i].private_net)
                    /\ Len(out[i].private_networks_info) = Len(out[i].private_networks)
                    /\ \A k \in 1..Len(out[i].private_networks) :
                          /\ out[i].private_networks[k] = out[i].private_networks_info[k].name
                          /\ out[i].private_networks[k] = nn[i].private_net[k].network.name
              /\ \A i, j \in 1..Len(out) : out[i] = out[j] => i = j

\* C10 witness: a result with a None entry between two servers, one of them
\* with private networks, was mapped to two records.
C10_Witness ==
    /\ pc = "prepared"
    /\ Len(hcloud_server_info) = 3
    /\ hcloud_server_info[1] # None
    /\ hcloud_server_info[2] = None
    /\ hcloud_server_info[3] # None
    /\ Len(result.hcloud_server_info) = 2
    /\ Len(result.hcloud_server_info[1].private_networks) >= 1

====
